---- MODULE Spec2Model ----
(***************************************************************************)
(* A model of src/circuit_breaker.py: the CircuitBreaker singleton, its    *)
(* call() entry point run by several threads, record_failure() and         *)
(* reset().                                                                *)
(*                                                                         *)
(* Grain of the steps.  self.state and self.half_open_request_count are    *)
(* read and written outside the lock (lines 50-54), so every read and      *)
(* every write of them is a step of its own: line 44 and line 45, lines    *)
(* 80-81 and line 82, the two reads of lines 50 and 51, and the load and   *)
(* the store of the `+=` of line 54.  failure_count and last_failure_time  *)
(* are only touched under the lock, so record_failure() is one step.  A    *)
(* step that touches no shared field (entering func, func returning or     *)
(* raising) is taken together with the neighbouring step of the thread.    *)
(*                                                                         *)
(* Specifications.  Spec starts from a breaker constructed once with       *)
(* positive bounds and runs call() from any number of threads.  SpecBurst  *)
(* starts at the entry into HALF-OPEN.  SpecFair is Spec under fair        *)
(* scheduling.  SpecCtor starts before any construction and lets the       *)
(* threads run __new__ and __init__ (lines 14-37) with any arguments,      *)
(* also while other threads are inside call().                             *)
(***************************************************************************)
EXTENDS Integers, FiniteSets, TLC

\* ---------------------------------------------------------------- bounds
NumThreads == 2
MaxTime == 1
MaxFailuresBound == 3
MaxResetTimeout == 1
MaxHalfOpenBound == 2

Threads == 1..NumThreads

\* self.last_failure_time = None (line 32)
None == -1
\* no thread holds CircuitBreaker._lock (line 12)
NoThread == 0

CLOSED == "CLOSED"
OPEN == "OPEN"
HALF_OPEN == "HALF-OPEN"

VARIABLES
    max_failures,             \* self.max_failures
    reset_timeout,            \* self.reset_timeout
    half_open_max_requests,   \* self.half_open_max_requests
    state,                    \* self.state
    failure_count,            \* self.failure_count
    last_failure_time,        \* self.last_failure_time (None or a clock value)
    half_open_request_count,  \* self.half_open_request_count
    lock,                     \* holder of CircuitBreaker._lock, or NoThread
    now,                      \* the value time.time() returns
    pc,                       \* pc[t]: the line thread t is about to run
    tmp,                      \* tmp[t]: the value loaded by `+=` on line 54
    trial,                    \* trial[t]: the call passed the check of line 51
    outcome,                  \* outcome[t]: what call() returned or raised
    invoked,                  \* invoked[t]: times func ran in the current call
    instances,                \* objects made by super().__new__ (line 18)
    initialized,              \* CircuitBreaker._instance.__initialized
    args                      \* args[t]: the arguments of t's construction

vars == <<max_failures, reset_timeout, half_open_max_requests, state,
          failure_count, last_failure_time, half_open_request_count, lock,
          now, pc, tmp, trial, outcome, invoked, instances, initialized,
          args>>

singleton == <<instances, initialized, args>>
config == <<max_failures, reset_timeout, half_open_max_requests>>
fields == <<state, failure_count, last_failure_time, half_open_request_count>>

\* ------------------------------------------------------ errors and results
NoOutcome == [kind |-> "None", msg |-> ""]
Result == [kind |-> "Result", msg |-> "Service succeeded!"]
\* line 48
CircuitOpenError == [kind |-> "RuntimeError",
                     msg |-> "Circuit is open. Service call blocked."]
\* line 53
HalfOpenLimitError == [kind |-> "RuntimeError",
                       msg |-> "Circuit is HALF-OPEN. Too many test requests."]
\* line 42 evaluated with last_failure_time = None
NoneTypeError == [kind |-> "TypeError", msg |-> "float - NoneType"]
\* what func may raise: any Exception; line 87 raises the first
OpErrors == {[kind |-> "ValueError", msg |-> "Service failed!"],
             [kind |-> "RuntimeError", msg |-> "Service failed!"]}

\* a thread that is not inside CircuitBreaker(...) has no arguments
NoArgs == <<>>

\* ------------------------------------------------- the breaker as a record
Self == [state |-> state,
         failure_count |-> failure_count,
         last_failure_time |-> last_failure_time,
         half_open_request_count |-> half_open_request_count]

SetSelf(b) ==
    /\ state' = b.state
    /\ failure_count' = b.failure_count
    /\ last_failure_time' = b.last_failure_time
    /\ half_open_request_count' = b.half_open_request_count

\* line 42: (time.time() - self.last_failure_time) >= self.reset_timeout
TimeoutElapsed(time, lft, rt) == time - lft >= rt

\* record_failure with `>` for `>=` on line 72
record_failure_gt(b, mf, time) ==
    LET fc == b.failure_count + 1
    IN [b EXCEPT !.failure_count = fc,
                 !.state = IF b.state = HALF_OPEN THEN OPEN
                           ELSE IF fc > mf THEN OPEN
                           ELSE b.state,
                 !.last_failure_time = time]

\* record_failure with line 76 indented into the elif of line 72
record_failure_time_in_elif(b, mf, time) ==
    LET fc == b.failure_count + 1
    IN [b EXCEPT !.failure_count = fc,
                 !.state = IF b.state = HALF_OPEN THEN OPEN
                           ELSE IF fc >= mf THEN OPEN
                           ELSE b.state,
                 !.last_failure_time = IF b.state # HALF_OPEN /\ fc >= mf
                                       THEN time ELSE @]

\* record_failure without line 76
record_failure_no_time(b, mf, time) ==
    LET fc == b.failure_count + 1
    IN [b EXCEPT !.failure_count = fc,
                 !.state = IF b.state = HALF_OPEN THEN OPEN
                           ELSE IF fc >= mf THEN OPEN
                           ELSE b.state]

\* lines 68-76
record_failure(b, mf, time) ==
    LET fc == b.failure_count + 1
    IN [b EXCEPT !.failure_count = fc,
                 !.state = IF b.state = HALF_OPEN THEN OPEN
                           ELSE IF fc >= mf THEN OPEN
                           ELSE b.state,
                 !.last_failure_time = time]

\* reset without line 80
reset_keeps_failure_count(b) == [b EXCEPT !.state = CLOSED]

\* lines 80-81
reset_80_81(b) == [b EXCEPT !.failure_count = 0, !.state = CLOSED]

\* reset without line 82
reset_keeps_half_open_count(b) == b

\* line 82
reset_82(b) == [b EXCEPT !.half_open_request_count = 0]

\* lines 78-82
reset(b) == reset_82(reset_80_81(b))

\* -------------------------------------------------------------------- Init
\* the state after CircuitBreaker(max_failures, reset_timeout,
\* half_open_max_requests) (lines 28-37), with no thread inside call()
Init ==
    /\ max_failures \in 1..MaxFailuresBound
    /\ reset_timeout \in 1..MaxResetTimeout
    /\ half_open_max_requests \in 1..MaxHalfOpenBound
    /\ state = CLOSED
    /\ failure_count = 0
    /\ last_failure_time = None
    /\ half_open_request_count = 0
    /\ lock = NoThread
    /\ now = 0
    /\ pc = [t \in Threads |-> "idle"]
    /\ tmp = [t \in Threads |-> 0]
    /\ trial = [t \in Threads |-> FALSE]
    /\ outcome = [t \in Threads |-> NoOutcome]
    /\ invoked = [t \in Threads |-> 0]
    /\ instances = 1
    /\ initialized = TRUE
    /\ args = [t \in Threads |-> NoArgs]

Goto(t, l) == pc' = [pc EXCEPT ![t] = l]

\* call() ends: the result or the exception reaches the caller
Finish(t, o) ==
    /\ Goto(t, "done")
    /\ outcome' = [outcome EXCEPT ![t] = o]

\* Invoke with a second try of func when the first has failed
InvokeWithRetry(t) ==
    /\ Goto(t, "in_func")
    /\ \E tries \in 1..2 : invoked' = [invoked EXCEPT ![t] = @ + tries]

\* line 57: func(*args, **kwargs) is entered
Invoke(t) ==
    /\ Goto(t, "in_func")
    /\ invoked' = [invoked EXCEPT ![t] = @ + 1]

\* ----------------------------------------------------------------- actions
\* line 40: with self._lock
Call(t) ==
    /\ pc[t] = "idle"
    /\ lock = NoThread
    /\ lock' = t
    /\ Goto(t, "l41")
    /\ UNCHANGED <<singleton, config,
                   fields, now, tmp, trial, outcome, invoked>>

\* CheckNotOpen with lines 50-65 indented into the with block of line 40
CheckNotOpenKeepsLock(t) ==
    /\ pc[t] = "l41"
    /\ state # OPEN
    /\ Goto(t, "l50")
    /\ UNCHANGED <<singleton, config, fields, lock, now, tmp, trial, outcome,
                   invoked>>

\* line 41, state is not OPEN: leave the with block
CheckNotOpen(t) ==
    /\ pc[t] = "l41"
    /\ state # OPEN
    /\ lock' = NoThread
    /\ Goto(t, "l50")
    /\ UNCHANGED <<singleton, config,
                   fields, now, tmp, trial, outcome, invoked>>

\* EnterHalfOpen that also sets failure_count = 0
EnterHalfOpenResetsCount(t) ==
    /\ pc[t] = "l41"
    /\ state = OPEN
    /\ last_failure_time # None
    /\ TimeoutElapsed(now, last_failure_time, reset_timeout)
    /\ state' = HALF_OPEN
    /\ failure_count' = 0
    /\ Goto(t, "l45")
    /\ UNCHANGED <<singleton, config, last_failure_time,
                   half_open_request_count, lock, now, tmp, trial, outcome,
                   invoked>>

\* lines 41-44: the timeout has elapsed, self.state = "HALF-OPEN"
EnterHalfOpen(t) ==
    /\ pc[t] = "l41"
    /\ state = OPEN
    /\ last_failure_time # None
    /\ TimeoutElapsed(now, last_failure_time, reset_timeout)
    /\ state' = HALF_OPEN
    /\ Goto(t, "l45")
    /\ UNCHANGED <<singleton, config, failure_count, last_failure_time,
                   half_open_request_count, lock, now, tmp, trial, outcome,
                   invoked>>

\* line 45: self.half_open_request_count = 0, then leave the with block
ResetHalfOpenCount(t) ==
    /\ pc[t] = "l45"
    /\ half_open_request_count' = 0
    /\ lock' = NoThread
    /\ Goto(t, "l50")
    /\ UNCHANGED <<singleton, config,
                   state, failure_count, last_failure_time, now, tmp,
                   trial, outcome, invoked>>

\* Blocked with line 45 run before the test of line 42
BlockedAfterCountReset(t) ==
    /\ pc[t] = "l41"
    /\ state = OPEN
    /\ IF last_failure_time = None THEN TRUE
       ELSE ~TimeoutElapsed(now, last_failure_time, reset_timeout)
    /\ half_open_request_count' = 0
    /\ lock' = NoThread
    /\ Finish(t, IF last_failure_time = None THEN NoneTypeError
                 ELSE CircuitOpenError)
    /\ UNCHANGED <<singleton, config,
                   state, failure_count, last_failure_time, now, tmp,
                   trial, invoked>>

\* Blocked whose raise of line 48 does not release the lock
BlockedKeepsLock(t) ==
    /\ pc[t] = "l41"
    /\ state = OPEN
    /\ IF last_failure_time = None THEN TRUE
       ELSE ~TimeoutElapsed(now, last_failure_time, reset_timeout)
    /\ Finish(t, IF last_failure_time = None THEN NoneTypeError
                 ELSE CircuitOpenError)
    /\ UNCHANGED <<singleton, config, fields, lock, now, tmp, trial, invoked>>

\* lines 41-42, 46-48: the call is blocked; the raise leaves the with block
\* (line 42 on last_failure_time = None raises TypeError instead)
Blocked(t) ==
    /\ pc[t] = "l41"
    /\ state = OPEN
    /\ IF last_failure_time = None THEN TRUE
       ELSE ~TimeoutElapsed(now, last_failure_time, reset_timeout)
    /\ lock' = NoThread
    /\ Finish(t, IF last_failure_time = None THEN NoneTypeError
                 ELSE CircuitOpenError)
    /\ UNCHANGED <<singleton, config, fields, now, tmp, trial, invoked>>

\* line 50: self.state == "HALF-OPEN" is true, read without the lock
ReadStateHalfOpen(t) ==
    /\ pc[t] = "l50"
    /\ state = HALF_OPEN
    /\ Goto(t, "l51")
    /\ UNCHANGED <<singleton, config,
                   fields, lock, now, tmp, trial, outcome, invoked>>

\* lines 50, 57: self.state == "HALF-OPEN" is false, func is entered
ReadStateInvoke(t) ==
    /\ pc[t] = "l50"
    /\ state # HALF_OPEN
    /\ Invoke(t)
    /\ UNCHANGED <<singleton, config, fields, lock, now, tmp, trial, outcome>>

\* lines 51-53: the trial limit is reached
RejectTrial(t) ==
    /\ pc[t] = "l51"
    /\ half_open_request_count >= half_open_max_requests
    /\ Finish(t, HalfOpenLimitError)
    /\ UNCHANGED <<singleton, config, fields, lock, now, tmp, trial, invoked>>

\* line 51: the check passes
AdmitTrial(t) ==
    /\ pc[t] = "l51"
    /\ half_open_request_count < half_open_max_requests
    /\ trial' = [trial EXCEPT ![t] = TRUE]
    /\ Goto(t, "l54")
    /\ UNCHANGED <<singleton, config,
                   fields, lock, now, tmp, outcome, invoked>>

\* line 54, the load of self.half_open_request_count += 1
LoadCount(t) ==
    /\ pc[t] = "l54"
    /\ tmp' = [tmp EXCEPT ![t] = half_open_request_count]
    /\ Goto(t, "l54s")
    /\ UNCHANGED <<singleton, config,
                   fields, lock, now, trial, outcome, invoked>>

\* lines 54, 57: the store of self.half_open_request_count += 1, then func
\* is entered
StoreCount(t) ==
    /\ pc[t] = "l54s"
    /\ half_open_request_count' = tmp[t] + 1
    /\ tmp' = [tmp EXCEPT ![t] = 0]
    /\ Invoke(t)
    /\ UNCHANGED <<singleton, config,
                   state, failure_count, last_failure_time, lock, now,
                   trial, outcome>>

\* lines 57-58, 80-81: func has returned; with self._lock, reset() sets
\* failure_count = 0 and state = "CLOSED"
ResetStart(t) ==
    /\ pc[t] = "in_func"
    /\ lock = NoThread
    /\ lock' = t
    /\ SetSelf(reset_80_81(Self))
    /\ Goto(t, "l82")
    /\ UNCHANGED <<singleton, config, now, tmp, trial, outcome, invoked>>

\* lines 82, 60: half_open_request_count = 0, leave the with block, return
ResetEnd(t) ==
    /\ pc[t] = "l82"
    /\ SetSelf(reset_82(Self))
    /\ lock' = NoThread
    /\ Finish(t, Result)
    /\ UNCHANGED <<singleton, config, now, tmp, trial, invoked>>

\* RecordFailure without lines 62-63: the exception is delivered, nothing
\* is recorded
RaiseWithoutRecord(t) ==
    /\ pc[t] = "in_func"
    /\ lock = NoThread
    /\ \E e \in OpErrors : Finish(t, e)
    /\ UNCHANGED <<singleton, config, fields, lock, now, tmp, trial, invoked>>

\* lines 57, 61-65: func has raised e; with self._lock, record_failure();
\* then the bare raise delivers e
RecordFailure(t) ==
    /\ pc[t] = "in_func"
    /\ lock = NoThread
    /\ SetSelf(record_failure(Self, max_failures, now))
    /\ \E e \in OpErrors : Finish(t, e)
    /\ UNCHANGED <<singleton, config, lock, now, tmp, trial, invoked>>

\* the caller has the outcome; the thread may call again
Return(t) ==
    /\ pc[t] = "done"
    /\ Goto(t, "idle")
    /\ outcome' = [outcome EXCEPT ![t] = NoOutcome]
    /\ invoked' = [invoked EXCEPT ![t] = 0]
    /\ trial' = [trial EXCEPT ![t] = FALSE]
    /\ UNCHANGED <<singleton, config, fields, lock, now, tmp>>

\* time.time() advances
Tick ==
    /\ now < MaxTime
    /\ now' = now + 1
    /\ UNCHANGED <<singleton, config,
                   fields, lock, pc, tmp, trial, outcome, invoked>>

Next ==
    \/ \E t \in Threads : Call(t)
    \/ \E t \in Threads : CheckNotOpen(t)
    \/ \E t \in Threads : EnterHalfOpen(t)
    \/ \E t \in Threads : ResetHalfOpenCount(t)
    \/ \E t \in Threads : Blocked(t)
    \/ \E t \in Threads : ReadStateHalfOpen(t)
    \/ \E t \in Threads : ReadStateInvoke(t)
    \/ \E t \in Threads : RejectTrial(t)
    \/ \E t \in Threads : AdmitTrial(t)
    \/ \E t \in Threads : LoadCount(t)
    \/ \E t \in Threads : StoreCount(t)
    \/ \E t \in Threads : ResetStart(t)
    \/ \E t \in Threads : ResetEnd(t)
    \/ \E t \in Threads : RecordFailure(t)
    \/ \E t \in Threads : Return(t)
    \/ Tick

Spec == Init /\ [][Next]_vars

\* ------------------------------------------------------------- the burst
\* The breaker has tripped at time 0, reset_timeout has elapsed, and the first
\* caller holds the lock on line 41 while the other threads are about to call;
\* no func returns or raises during the burst.
FirstCaller == CHOOSE t \in Threads : \A u \in Threads : t <= u

BurstInit ==
    /\ max_failures \in 1..MaxFailuresBound
    /\ reset_timeout \in 1..MaxResetTimeout
    /\ half_open_max_requests \in 1..MaxHalfOpenBound
    /\ state = OPEN
    /\ failure_count = max_failures
    /\ last_failure_time = 0
    /\ half_open_request_count = 0
    /\ lock = FirstCaller
    /\ now = reset_timeout
    /\ pc = [t \in Threads |-> IF t = FirstCaller THEN "l41" ELSE "idle"]
    /\ tmp = [t \in Threads |-> 0]
    /\ trial = [t \in Threads |-> FALSE]
    /\ outcome = [t \in Threads |-> NoOutcome]
    /\ invoked = [t \in Threads |-> 0]
    /\ instances = 1
    /\ initialized = TRUE
    /\ args = [t \in Threads |-> NoArgs]

NextBurst ==
    \/ \E t \in Threads : Call(t)
    \/ \E t \in Threads : CheckNotOpen(t)
    \/ \E t \in Threads : EnterHalfOpen(t)
    \/ \E t \in Threads : ResetHalfOpenCount(t)
    \/ \E t \in Threads : ReadStateHalfOpen(t)
    \/ \E t \in Threads : RejectTrial(t)
    \/ \E t \in Threads : AdmitTrial(t)
    \/ \E t \in Threads : LoadCount(t)
    \/ \E t \in Threads : StoreCount(t)

SpecBurst == BurstInit /\ [][NextBurst]_vars

\* ------------------------------------------------------- fair scheduling
\* Time advances while the clock of the model has room; every thread calls
\* again and again and gets the lock when it asks for it often enough; a
\* thread inside call() that can take a step takes it; every func returns or
\* raises, and its thread then gets the lock.
Step(t) ==
    \/ CheckNotOpen(t)
    \/ EnterHalfOpen(t)
    \/ ResetHalfOpenCount(t)
    \/ Blocked(t)
    \/ ReadStateHalfOpen(t)
    \/ ReadStateInvoke(t)
    \/ RejectTrial(t)
    \/ AdmitTrial(t)
    \/ LoadCount(t)
    \/ StoreCount(t)
    \/ ResetEnd(t)
    \/ Return(t)

Fairness ==
    /\ WF_vars(Tick)
    /\ \A t \in Threads : SF_vars(Call(t))
    /\ \A t \in Threads : WF_vars(Step(t))
    /\ \A t \in Threads : SF_vars(ResetStart(t) \/ RecordFailure(t))

SpecFair == Spec /\ Fairness

\* ------------------------------------------------------- the construction
\* CircuitBreaker(max_failures, reset_timeout, half_open_max_requests) run by
\* the threads themselves, from the state of the class before any
\* construction.  __new__ runs under CircuitBreaker._lock; __init__ does not,
\* so its test of line 25 and each of its stores is a step of its own.

\* an attribute that no __init__ has stored yet
Unset == "unset"

\* the arguments a construction may pass; __init__ takes any integers, zero
\* stands for the non-positive ones.  reset_timeout stays positive here: with
\* reset_timeout <= 0 every call reopens the window and failure_count grows
\* without bound.
CtorArgs == [max_failures : 0..MaxFailuresBound,
             reset_timeout : 1..MaxResetTimeout,
             half_open_max_requests : 0..MaxHalfOpenBound]

CtorInit ==
    /\ max_failures = Unset
    /\ reset_timeout = Unset
    /\ half_open_max_requests = Unset
    /\ state = Unset
    /\ failure_count = Unset
    /\ last_failure_time = Unset
    /\ half_open_request_count = Unset
    /\ lock = NoThread
    /\ now = 0
    /\ pc = [t \in Threads |-> "idle"]
    /\ tmp = [t \in Threads |-> 0]
    /\ trial = [t \in Threads |-> FALSE]
    /\ outcome = [t \in Threads |-> NoOutcome]
    /\ invoked = [t \in Threads |-> 0]
    /\ instances = 0
    /\ initialized = FALSE
    /\ args = [t \in Threads |-> NoArgs]

\* the thread-local part of a step of the construction
Local == <<lock, now, tmp, trial, outcome, invoked>>

\* lines 14-20: __new__, the whole with block
New(t) ==
    /\ pc[t] = "idle"
    /\ lock = NoThread
    /\ \E a \in CtorArgs : args' = [args EXCEPT ![t] = a]
    /\ IF instances = 0
       THEN instances' = 1 /\ initialized' = FALSE
       ELSE UNCHANGED <<instances, initialized>>
    /\ Goto(t, "l25")
    /\ UNCHANGED <<config, fields, Local>>

\* lines 25-26: __initialized is true, __init__ returns
InitReturn(t) ==
    /\ pc[t] = "l25"
    /\ initialized
    /\ args' = [args EXCEPT ![t] = NoArgs]
    /\ Goto(t, "idle")
    /\ UNCHANGED <<instances, initialized, config, fields, Local>>

\* line 25: __initialized is false
InitCheck(t) ==
    /\ pc[t] = "l25"
    /\ ~initialized
    /\ Goto(t, "l28")
    /\ UNCHANGED <<singleton, config, fields, Local>>

\* line 28
SetMaxFailures(t) ==
    /\ pc[t] = "l28"
    /\ max_failures' = args[t].max_failures
    /\ Goto(t, "l29")
    /\ UNCHANGED <<singleton, reset_timeout, half_open_max_requests, fields,
                   Local>>

\* line 29
SetResetTimeout(t) ==
    /\ pc[t] = "l29"
    /\ reset_timeout' = args[t].reset_timeout
    /\ Goto(t, "l30")
    /\ UNCHANGED <<singleton, max_failures, half_open_max_requests, fields,
                   Local>>

\* line 30
SetHalfOpenMaxRequests(t) ==
    /\ pc[t] = "l30"
    /\ half_open_max_requests' = args[t].half_open_max_requests
    /\ Goto(t, "l31")
    /\ UNCHANGED <<singleton, max_failures, reset_timeout, fields, Local>>

\* line 31
SetFailureCount(t) ==
    /\ pc[t] = "l31"
    /\ failure_count' = 0
    /\ Goto(t, "l32")
    /\ UNCHANGED <<singleton, config, state, last_failure_time,
                   half_open_request_count, Local>>

\* line 32
SetLastFailureTime(t) ==
    /\ pc[t] = "l32"
    /\ last_failure_time' = None
    /\ Goto(t, "l34")
    /\ UNCHANGED <<singleton, config, state, failure_count,
                   half_open_request_count, Local>>

\* line 34
SetState(t) ==
    /\ pc[t] = "l34"
    /\ state' = CLOSED
    /\ Goto(t, "l35")
    /\ UNCHANGED <<singleton, config, failure_count, last_failure_time,
                   half_open_request_count, Local>>

\* line 35
SetHalfOpenRequestCount(t) ==
    /\ pc[t] = "l35"
    /\ half_open_request_count' = 0
    /\ Goto(t, "l37")
    /\ UNCHANGED <<singleton, config, state, failure_count,
                   last_failure_time, Local>>

\* line 37: __initialized = True, the constructor returns the instance
SetInitialized(t) ==
    /\ pc[t] = "l37"
    /\ initialized' = TRUE
    /\ args' = [args EXCEPT ![t] = NoArgs]
    /\ Goto(t, "idle")
    /\ UNCHANGED <<instances, config, fields, Local>>

\* a thread calls once a constructor has returned the instance, which is
\* after line 37 has run
CallInstance(t) == initialized /\ Call(t)

NextCtor ==
    \/ \E t \in Threads : New(t)
    \/ \E t \in Threads : InitReturn(t)
    \/ \E t \in Threads : InitCheck(t)
    \/ \E t \in Threads : SetMaxFailures(t)
    \/ \E t \in Threads : SetResetTimeout(t)
    \/ \E t \in Threads : SetHalfOpenMaxRequests(t)
    \/ \E t \in Threads : SetFailureCount(t)
    \/ \E t \in Threads : SetLastFailureTime(t)
    \/ \E t \in Threads : SetState(t)
    \/ \E t \in Threads : SetHalfOpenRequestCount(t)
    \/ \E t \in Threads : SetInitialized(t)
    \/ \E t \in Threads : CallInstance(t)
    \/ \E t \in Threads : CheckNotOpen(t)
    \/ \E t \in Threads : EnterHalfOpen(t)
    \/ \E t \in Threads : ResetHalfOpenCount(t)
    \/ \E t \in Threads : Blocked(t)
    \/ \E t \in Threads : ReadStateHalfOpen(t)
    \/ \E t \in Threads : ReadStateInvoke(t)
    \/ \E t \in Threads : RejectTrial(t)
    \/ \E t \in Threads : AdmitTrial(t)
    \/ \E t \in Threads : LoadCount(t)
    \/ \E t \in Threads : StoreCount(t)
    \/ \E t \in Threads : ResetStart(t)
    \/ \E t \in Threads : ResetEnd(t)
    \/ \E t \in Threads : RecordFailure(t)
    \/ \E t \in Threads : Return(t)
    \/ Tick

SpecCtor == CtorInit /\ [][NextCtor]_vars

\* ------------------------------------------------------------------ claims
Failed(t) == pc[t] = "done" /\ invoked[t] = 1 /\ outcome[t] # Result
Decided(t) == pc[t] \in {"in_func", "done"}
Invoking == {t \in Threads : pc[t] = "in_func" /\ invoked[t] = 1}
Rejected == {t \in Threads : /\ pc[t] = "done"
                             /\ outcome[t] = HalfOpenLimitError
                             /\ invoked[t] = 0}

\* C1: in every reachable state where state is HALF-OPEN,
\* half_open_request_count is at most half_open_max_requests.
C1_HalfOpenCountBounded ==
    state = HALF_OPEN => half_open_request_count <= half_open_max_requests

\* C2: between the entry into HALF-OPEN and the next change of state, the
\* calls that passed the check of line 51 and entered func number at most
\* half_open_max_requests.
C2_TrialsBounded ==
    state = HALF_OPEN =>
        Cardinality({t \in Invoking : trial[t]}) <= half_open_max_requests

\* C3: once each of the NumThreads calls fired at the entry into HALF-OPEN has
\* been decided, and half_open_max_requests < NumThreads, exactly
\* half_open_max_requests of them have entered func and the others were
\* rejected with the half-open-limit error without entering func.
C3_BurstSplit ==
    (half_open_max_requests < NumThreads /\ \A t \in Threads : Decided(t)) =>
        /\ Cardinality(Invoking) = half_open_max_requests
        /\ Cardinality(Rejected) = NumThreads - half_open_max_requests

C5_BlockedCallFrame ==
    [][\A t \in Threads :
        (/\ pc[t] = "l41" /\ pc'[t] # "l41"
         /\ state = OPEN
         /\ last_failure_time # None
         /\ now - last_failure_time < reset_timeout) =>
            /\ pc'[t] = "done"
            /\ outcome'[t] = CircuitOpenError
            /\ invoked'[t] = 0
            /\ UNCHANGED fields]_vars

W5_BlockedCallFrame ==
    /\ state = OPEN
    /\ half_open_request_count > 0
    /\ now - last_failure_time < reset_timeout
    /\ \E t \in Threads : /\ pc[t] = "done"
                          /\ outcome[t] = CircuitOpenError
                          /\ invoked[t] = 0

\* C6: the first call that finds OPEN with the timeout elapsed sets state to
\* HALF-OPEN, sets half_open_request_count to 0, and that same call passes
\* the check of line 51 and enters func.
C6_FirstCallerIsTried ==
    [][/\ (pc[FirstCaller] = "l41" /\ pc'[FirstCaller] # "l41") =>
              state' = HALF_OPEN
       /\ (pc[FirstCaller] = "l45" /\ pc'[FirstCaller] # "l45") =>
              half_open_request_count' = 0
       /\ pc'[FirstCaller] = "done" =>
              invoked'[FirstCaller] = 1 /\ trial'[FirstCaller]]_vars

SuccessfulCall(b) ==
    reset(IF b.state = HALF_OPEN
          THEN [b EXCEPT !.half_open_request_count = @ + 1]
          ELSE b)

\* C9: from CLOSED with failure_count = 0 a successful call leaves state
\* CLOSED, failure_count 0 and half_open_request_count 0, and a second
\* successful call changes nothing more.
C9_SuccessIdempotent ==
    [][(state = CLOSED /\ failure_count = 0) =>
        /\ LET once == SuccessfulCall(Self)
           IN /\ once.state = CLOSED
              /\ once.failure_count = 0
              /\ once.half_open_request_count = 0
              /\ once.last_failure_time = last_failure_time
              /\ SuccessfulCall(once) = once
        /\ \A t \in Threads :
              (pc[t] = "in_func" /\ pc'[t] = "l82") =>
                  /\ state' = CLOSED
                  /\ failure_count' = 0
                  /\ last_failure_time' = last_failure_time
        /\ \A t \in Threads :
              (pc[t] = "l82" /\ pc'[t] # "l82") =>
                  /\ Self' = reset(Self)
                  /\ Self' = SuccessfulCall(Self')]_vars

W9_SuccessIdempotent ==
    /\ state = CLOSED
    /\ failure_count = 0
    /\ half_open_request_count = 0
    /\ last_failure_time = None
    /\ \A t \in Threads : pc[t] = "done" /\ outcome[t] = Result

\* C10: a call that entered func and did not return its result delivers an
\* operation-failed error, whose kind is not the kind of the errors of a
\* blocked call.
C10_FailureKindDistinct ==
    \A t \in Threads :
        Failed(t) =>
            /\ outcome[t].kind = "OperationFailedError"
            /\ outcome[t].kind # CircuitOpenError.kind
            /\ outcome[t].kind # HalfOpenLimitError.kind

\* C11: a construction with a non-positive max_failures, reset_timeout or
\* half_open_max_requests fails, so that whenever the instance is initialized
\* and call() can run, the three bounds are positive.
C11_InvalidConfigRejected ==
    initialized =>
        /\ max_failures > 0
        /\ reset_timeout > 0
        /\ half_open_max_requests > 0

\* C12: no thread holds the lock while its func runs: the holder of the
\* lock is on lines 41-45 or inside reset(), so a func in progress never keeps
\* another caller from the lock; two calls admitted in CLOSED have their
\* funcs in progress at the same time.
C12_LockFreeWhileFuncRuns ==
    \A t \in Threads :
        /\ pc[t] = "in_func" => lock # t
        /\ lock = t => pc[t] \in {"l41", "l45", "l82"}

W12_LockFreeWhileFuncRuns ==
    /\ state = CLOSED
    /\ lock = NoThread
    /\ Cardinality({t \in Threads : pc[t] = "in_func" /\ ~trial[t]}) >= 2

\* C13: state changes only from CLOSED to OPEN by a failure that brings
\* failure_count to max_failures, from OPEN to HALF-OPEN by a call made when
\* reset_timeout has elapsed, from HALF-OPEN to OPEN by a failure and from
\* HALF-OPEN to CLOSED by a success; in particular never from OPEN to CLOSED.
C13_OnlyTableTransitions ==
    [][state' # state =>
        \/ /\ state = CLOSED /\ state' = OPEN
           /\ failure_count' = failure_count + 1
           /\ failure_count' >= max_failures
        \/ /\ state = OPEN /\ state' = HALF_OPEN
           /\ last_failure_time # None
           /\ now - last_failure_time >= reset_timeout
           /\ \E t \in Threads : pc[t] = "l41" /\ pc'[t] = "l45"
        \/ /\ state = HALF_OPEN /\ state' = OPEN
           /\ \E t \in Threads : pc[t] = "in_func" /\ pc'[t] = "done"
        \/ /\ state = HALF_OPEN /\ state' = CLOSED
           /\ \E t \in Threads : pc[t] = "in_func" /\ pc'[t] = "l82"]_vars

\* C14: failure_count counts the failures recorded since the last success:
\* a recorded failure adds one, a success sets it to 0 together with state
\* CLOSED, and no other step changes it (not a blocked call, not the entry
\* into HALF-OPEN); it becomes 0 only in a step that leaves state CLOSED, and
\* a failure recorded in CLOSED that leaves it below max_failures keeps state
\* CLOSED.
C14_ConsecutiveFailureCounter ==
    [][/\ \A t \in Threads :
            /\ (pc[t] = "in_func" /\ pc'[t] = "done") =>
                  /\ failure_count' = failure_count + 1
                  /\ (state = CLOSED /\ failure_count' < max_failures) =>
                        state' = CLOSED
            /\ (pc[t] = "in_func" /\ pc'[t] = "l82") =>
                  failure_count' = 0 /\ state' = CLOSED
       /\ (\A t \in Threads : pc[t] = "in_func" => pc'[t] = "in_func") =>
              failure_count' = failure_count
       /\ (state' = CLOSED /\ state # CLOSED) => failure_count' = 0
       /\ (failure_count' = 0 /\ failure_count # 0) => state' = CLOSED]_vars

W14_ConsecutiveFailureCounter ==
    /\ max_failures >= 2
    /\ state = CLOSED
    /\ failure_count > 0
    /\ failure_count < max_failures
    /\ \E t \in Threads : Failed(t)
    /\ \E t \in Threads : pc[t] = "done" /\ outcome[t] = Result

\* C15: a call enters func at most once; a call that ends with the
\* circuit-open or the half-open-limit error has not entered func, and a call
\* that returns the result or delivers func's exception has entered it
\* exactly once.
C15_NoRetry ==
    \A t \in Threads :
        /\ invoked[t] <= 1
        /\ pc[t] = "done" =>
              /\ outcome[t] \in {CircuitOpenError, HalfOpenLimitError} =>
                    invoked[t] = 0
              /\ outcome[t] \in {Result} \cup OpErrors => invoked[t] = 1
              /\ outcome[t] \in {CircuitOpenError, HalfOpenLimitError, Result}
                               \cup OpErrors

W15_NoRetry ==
    /\ \E t \in Threads : /\ pc[t] = "done" /\ invoked[t] = 0
                          /\ outcome[t] = HalfOpenLimitError
    /\ \E t \in Threads : /\ pc[t] = "done" /\ invoked[t] = 1
                          /\ outcome[t] \in OpErrors

\* C16: a func that has returned or raised is followed, before call() ends,
\* by one update made with the lock taken from free: reset() when it
\* returned, record_failure() (failure_count + 1, last_failure_time = now)
\* when it raised, the exception being delivered only with that update; and
\* failure_count grows and last_failure_time changes in no other step, so
\* the failures recorded are the failed funcs and last_failure_time is the
\* time of the last one recorded.
C16_OneOutcomeUpdate ==
    [][/\ \A t \in Threads :
            /\ (pc[t] = "in_func" /\ pc'[t] # "in_func") =>
                  /\ lock = NoThread
                  /\ \/ /\ pc'[t] = "l82"
                        /\ lock' = t
                        /\ state' = CLOSED
                        /\ failure_count' = 0
                        /\ last_failure_time' = last_failure_time
                     \/ /\ pc'[t] = "done"
                        /\ outcome'[t] \in OpErrors
                        /\ failure_count' = failure_count + 1
                        /\ last_failure_time' = now
                        /\ lock' = NoThread
            /\ (pc[t] = "l82" /\ pc'[t] # "l82") =>
                  /\ lock = t
                  /\ lock' = NoThread
                  /\ half_open_request_count' = 0
                  /\ pc'[t] = "done"
                  /\ outcome'[t] = Result
            /\ (pc[t] # "done" /\ pc'[t] = "done" /\ invoked'[t] = 1) =>
                  pc[t] \in {"in_func", "l82"}
       /\ (\/ last_failure_time' # last_failure_time
           \/ failure_count' > failure_count) =>
              \E t \in Threads : pc[t] = "in_func" /\ pc'[t] = "done"]_vars

W16_OneOutcomeUpdate ==
    /\ now > 0
    /\ last_failure_time = now
    /\ failure_count >= 2
    /\ \E t \in Threads : Failed(t)
    /\ \E t \in Threads : pc[t] = "done" /\ outcome[t] = Result

\* C17: one instance is ever made, and once a construction has completed
\* (line 37) no step of a constructor, later or concurrent, changes
\* max_failures, reset_timeout, half_open_max_requests, state, failure_count,
\* last_failure_time or half_open_request_count.
C17_OnlyFirstConstructionSets ==
    [][/\ instances' <= 1
       /\ initialized =>
            \A t \in Threads :
                (/\ pc[t] \in {"l25", "l28", "l29", "l30", "l31", "l32",
                               "l34", "l35", "l37"}
                 /\ pc'[t] # pc[t]) => UNCHANGED <<config, fields>>]_vars

\* C19: in every reachable state where state is CLOSED, failure_count is
\* less than max_failures.
C19_ClosedBelowThreshold ==
    state = CLOSED => failure_count < max_failures

W19_ClosedBelowThreshold ==
    /\ max_failures >= 2
    /\ state = CLOSED
    /\ failure_count = max_failures - 1
    /\ \E t \in Threads : Failed(t)
    /\ \E t \in Threads : pc[t] = "in_func"

\* C20: in every reachable state where state is OPEN, last_failure_time is
\* not None, and no call has evaluated line 42 on None.
C20_OpenHasFailureTime ==
    /\ state = OPEN => last_failure_time # None
    /\ \A t \in Threads : outcome[t] # NoneTypeError

W20_OpenHasFailureTime ==
    /\ state = OPEN
    /\ last_failure_time # None
    /\ \E t \in Threads : pc[t] = "l41" /\ lock = t
    /\ \E t \in Threads : pc[t] = "in_func"

\* the clock of the model can no longer reach last_failure_time +
\* reset_timeout
ClockExhausted ==
    /\ last_failure_time # None
    /\ last_failure_time + reset_timeout > MaxTime

\* C18: a thread outside call() never holds the lock (every exit path, the
\* raise of line 48 included, releases it); under fair scheduling a breaker
\* in OPEN whose timeout the clock can still reach leaves OPEN, a breaker in
\* HALF-OPEN leaves HALF-OPEN, and once no func raises any more the breaker
\* is CLOSED again and again.
C18_NoStuckState ==
    /\ [](\A t \in Threads : pc[t] \in {"idle", "done"} => lock # t)
    /\ (state = OPEN /\ ~ClockExhausted) ~> (state # OPEN \/ ClockExhausted)
    /\ (state = HALF_OPEN) ~> (state # HALF_OPEN)
    /\ (<>[][\A t \in Threads : ~(pc[t] = "in_func" /\ pc'[t] = "done")]_vars)
          => []<>(state = CLOSED \/ (state = OPEN /\ ClockExhausted))

W18_NoStuckState ==
    /\ state = HALF_OPEN
    /\ half_open_request_count >= half_open_max_requests
    /\ lock = NoThread
    /\ Rejected # {}

====
